---- MODULE Spec2Model ----
(***************************************************************************)
(* Invaders From Space: the game-object model of "stages/Stage 3/objects.py"*)
(* (GameObject, Bullet, Player) and the game window of "invaders.py".       *)
(*                                                                         *)
(* Units.  Time is counted in tenths of a second, lengths in tenths of a   *)
(* pixel, so that every quantity of the program is an integer:             *)
(*   explosion_time 0.2 s = 2,  cooldown_time 0.5 s = 5,                   *)
(*   speed 150 px/s = 150 tenth-pixels per tenth-second, 180 likewise,     *)
(*   scale 0.2 = 2 tenths, scale 1 = 10 tenths,                            *)
(*   a width of w pixels at scale s tenths = w * s tenth-pixels,           *)
(*   sprite.width / 2 = (w * s) \div 2 (w * s is even for s in {2, 10}).   *)
(*                                                                         *)
(* The pyglet clock is modelled as the list of one-shot callbacks that     *)
(* schedule_once registered, each with the delay that remains, kept in     *)
(* firing order; a clock tick of dt fires, in order, every callback whose  *)
(* remaining delay is at most dt.                                          *)
(***************************************************************************)
EXTENDS Integers, Sequences, FiniteSets

\* ----------------------------------------------------------------- bounds
\* most Bullets in the bullet list when every object's lifecycle is explored
MaxBullets == 1
\* most Bullets the Player fires when it is at play
MaxShots == 2
\* most callbacks pending on the clock
MaxPending == 2
\* the Player stays within MaxMove update-lengths of its start position
MaxMove == 1
\* a Bullet climbs at most MaxClimb tenth-seconds' worth of travel
MaxClimb == 10
\* coordinates and sizes of the objects handed to has_hit range over 0..MaxCoord
MaxCoord == 3

\* ------------------------------------------------------ program constants
ExplosionTime == 2
CooldownTime == 5
BulletSpeed == 180
PlayerSpeed == 150
BulletScale == 2
DefaultScale == 10
SpriteScale == 10
StartX == 200
StartY == 200

\* elapsed times (tenths of a second) handed to update and to the clock:
\* the Player's updates at play (its default elapsed_time, 0, is what the
\* lifecycle specification passes), the Bullets' updates (none, or one whole
\* second) and the clock's ticks
PlayerDts == {1}
BulletDts == {0, 10}
TickDts == {1, 2}

\* The image assets are not part of the source; the sizes (pixels) of
\* player.png, bullet.png and explosion.png are chosen at start-up among
\* these asset sets and never change.  In both, explosion.png has the size
\* of player.png, so that a Player keeps its size when its sprite is swapped.
ImageSets ==
    { [player |-> <<40, 30>>, bullet |-> <<10, 50>>, explosion |-> <<40, 30>>],
      [player |-> <<64, 48>>, bullet |-> <<5, 20>>, explosion |-> <<64, 48>>] }

VARIABLES
    images,        \* the loaded image assets: name -> <<width, height>> in pixels
    player,        \* InvadersWindow.player: the Player's fields
    bullets,       \* window.bullets: the list Player.fire appends to
    clock,         \* pyglet.clock: pending schedule_once callbacks, in firing order
    screen,        \* what the last on_draw pass put on the screen
    hit,           \* the last has_hit call: its two arguments and its result
    sinceFire,     \* history: time since the last Bullet was appended (saturating)
    sinceExplode   \* history: per object, time since its first explode() (saturating)

vars == <<images, player, bullets, clock, screen, hit, sinceFire, sinceExplode>>

Never == -1
NoHit == [called |-> FALSE]

ObjectIds == {0} \cup (1..MaxBullets)
PlayerId == 0

Min(a, b) == IF a < b THEN a ELSE b

\* ------------------------------------------------------------ GameObject
\* pyglet.sprite.Sprite(image, x, y) followed by sprite.scale = scale, and the
\* two state flags set to False.
GameObject(image, x_pos, y_pos, scale) ==
    [image |-> image, x |-> x_pos, y |-> y_pos, scale |-> scale,
     exploded |-> FALSE, destroyed |-> FALSE]

\* sprite.width and sprite.height: the image's size times the sprite's scale
Width(o) == images[o.image][1] * o.scale
Height(o) == images[o.image][2] * o.scale

\* has_hit with the far edges counted as inside (<= for <)
has_hit_inclusive(self, other) ==
    IF self.x > other.x /\ self.x <= other.x + Width(other)
    THEN IF self.y > other.y /\ self.y <= other.y + Height(other)
         THEN TRUE
         ELSE FALSE
    ELSE FALSE

\* GameObject.has_hit: is self's anchor point within other's sprite?
has_hit(self, other) ==
    IF self.x > other.x /\ self.x < other.x + Width(other)
    THEN IF self.y > other.y /\ self.y < other.y + Height(other)
         THEN TRUE
         ELSE FALSE
    ELSE FALSE

\* GameObject.destroy
destroy(o) == [o EXCEPT !.destroyed = TRUE]

\* explode that also marks the object as not destroyed
explode_revives(o) ==
    [o EXCEPT !.exploded = TRUE, !.destroyed = FALSE,
              !.image = "explosion", !.scale = SpriteScale]

\* GameObject.explode, the object's part: the flag, and a new Sprite made of
\* the explosion image at the old sprite's position (a new Sprite has pyglet's
\* default scale; the class's scale is not applied to it).
explode(o) ==
    [o EXCEPT !.exploded = TRUE, !.image = "explosion", !.scale = SpriteScale]

\* GameObject.draw: the sprite as it appears on the screen
draw(o) == [image |-> o.image, x |-> o.x, y |-> o.y, scale |-> o.scale]

\* ---------------------------------------------------------------- Bullet
\* Bullet.__init__: y is Player.image.height (pixels, so times 10) plus the
\* bullet image's height times the bullet scale.
Bullet(x_pos) ==
    GameObject("bullet", x_pos,
               images.player[2] * 10 + images.bullet[2] * BulletScale,
               BulletScale)

\* a Bullet.update that destroys the Bullet once it has flown half a second's
\* worth above its spawn height
BulletMoveExpires(b, elapsed_time) ==
    [b EXCEPT !.y = b.y + BulletSpeed * elapsed_time,
              !.destroyed = b.destroyed \/
                  b.y + BulletSpeed * elapsed_time
                      > images.player[2] * 10 + images.bullet[2] * BulletScale
                          + BulletSpeed * 5]

\* Bullet.update with the sign of the motion reversed
BulletMoveDown(b, elapsed_time) == [b EXCEPT !.y = b.y - BulletSpeed * elapsed_time]

\* Bullet.update
BulletMove(b, elapsed_time) == [b EXCEPT !.y = b.y + BulletSpeed * elapsed_time]

\* ---------------------------------------------------------------- Player
\* Player.__init__: a GameObject at (20, 20) px with cooldown False
Player ==
    LET g == GameObject("player", StartX, StartY, DefaultScale)
    IN  [f \in DOMAIN g \cup {"cooldown"} |->
            IF f = "cooldown" THEN FALSE ELSE g[f]]

\* Player.move
move(p, speed, elapsed_time) == [p EXCEPT !.x = p.x + speed * elapsed_time]

\* the movement decision without the "ONLY": left wins when both keys are held
MovedLeftWins(p, left, right, elapsed_time) ==
    IF left THEN move(p, -PlayerSpeed, elapsed_time)
    ELSE IF right THEN move(p, PlayerSpeed, elapsed_time)
    ELSE p

\* Player.update, the movement decision (lines 230-237)
Moved(p, left, right, elapsed_time) ==
    IF left /\ ~right THEN move(p, -PlayerSpeed, elapsed_time)
    ELSE IF right /\ ~left THEN move(p, PlayerSpeed, elapsed_time)
    ELSE p

\* a fire decision that guards itself: a destroyed or exploded Player holds fire
FiresUnlessDestroyed(p, fire) ==
    fire /\ ~p.cooldown /\ ~p.destroyed /\ ~p.exploded

\* the fire decision without the cooldown test
FiresAlways(p, fire) == fire

\* Player.update, the fire decision (line 240)
Fires(p, fire) == fire /\ ~p.cooldown

\* the new Bullet's x taken at the Player's anchor instead of its middle
FireXAnchor(p) == p.x

\* Player.fire: the x handed to the new Bullet
FireX(p) == p.x + Width(p) \div 2

\* ------------------------------------------------------------ pyglet.clock
\* a schedule_once that replaces a callback already pending for the same
\* object instead of adding another one
ScheduleOnceReplace(q, func, obj, delay) ==
    LET kept == SelectSeq(q, LAMBDA it : ~(it.func = func /\ it.obj = obj))
        k == Cardinality({i \in 1..Len(kept) : kept[i].delay <= delay})
    IN  SubSeq(kept, 1, k) \o <<[func |-> func, obj |-> obj, delay |-> delay]>>
            \o SubSeq(kept, k + 1, Len(kept))

\* pyglet.clock.schedule_once(func, delay): the callback joins the pending
\* ones behind every callback that is due no later than it is.
ScheduleOnce(q, func, obj, delay) ==
    LET k == Cardinality({i \in 1..Len(q) : q[i].delay <= delay})
    IN  SubSeq(q, 1, k) \o <<[func |-> func, obj |-> obj, delay |-> delay]>>
            \o SubSeq(q, k + 1, Len(q))

\* a destroy scheduled one tenth of a second late
ExplodeDelayLate == ExplosionTime + 1

\* an end_cooldown scheduled one tenth of a second late
CooldownDelayLate == CooldownTime + 1

\* the delay explode() hands to schedule_once, and the one update() hands to it
ExplodeDelay == ExplosionTime

CooldownDelay == CooldownTime

\* callbacks that are cancelled by destruction: one whose object is already
\* destroyed does nothing
RunCallbackUnlessDestroyed(st, item) ==
    IF item.func = "end_cooldown"
    THEN IF st.player.destroyed THEN st
         ELSE [st EXCEPT !.player.cooldown = FALSE]
    ELSE IF item.obj = PlayerId
         THEN [st EXCEPT !.player = destroy(st.player)]
         ELSE [st EXCEPT !.bullets[item.obj] = destroy(st.bullets[item.obj])]

\* one callback run by the clock, on the pair of the player and the bullets
RunCallback(st, item) ==
    IF item.func = "end_cooldown"
    THEN [st EXCEPT !.player.cooldown = FALSE]
    ELSE IF item.obj = PlayerId
         THEN [st EXCEPT !.player = destroy(st.player)]
         ELSE [st EXCEPT !.bullets[item.obj] = destroy(st.bullets[item.obj])]

RECURSIVE RunDue(_, _)
RunDue(st, items) ==
    IF items = <<>> THEN st
    ELSE RunDue(RunCallback(st, Head(items)), Tail(items))

Due(q, dt) == SelectSeq(q, LAMBDA it : it.delay <= dt)
Later(q, dt) ==
    LET rest == SelectSeq(q, LAMBDA it : it.delay > dt)
    IN  [i \in 1..Len(rest) |-> [rest[i] EXCEPT !.delay = rest[i].delay - dt]]

Age(t, dt, cap) == IF t = Never THEN Never ELSE Min(t + dt, cap)

\* ------------------------------------------------------------------ state
Object(id) == IF id = PlayerId THEN player ELSE bullets[id]
Live == {PlayerId} \cup (1..Len(bullets))

Init ==
    /\ images \in ImageSets
    /\ player = Player
    /\ bullets = <<>>
    /\ clock = <<>>
    /\ screen = {}
    /\ hit = NoHit
    /\ sinceFire = Never
    /\ sinceExplode = [id \in ObjectIds |-> Never]

\* ---------------------------------------------------------------- actions
\* One turn of pyglet's event loop: the clock advances by dt and runs the
\* callbacks that are due; game_window.update, scheduled every 1/120 s, does
\* nothing (its body is "pass").
Tick(dt) ==
    LET st == RunDue([player |-> player, bullets |-> bullets], Due(clock, dt))
    IN  /\ player' = st.player
        /\ bullets' = st.bullets
        /\ clock' = Later(clock, dt)
        /\ sinceFire' = Age(sinceFire, dt, CooldownTime)
        /\ sinceExplode' =
              [id \in ObjectIds |-> Age(sinceExplode[id], dt, ExplosionTime)]
        /\ UNCHANGED <<images, screen, hit>>

\* a Player.update that fires before it moves: the Bullet leaves from the
\* middle of the position the Player had when the update began
PlayerUpdateFireFirst(left, right, fire, elapsed_time) ==
    LET p == Moved(player, left, right, elapsed_time)
    IN  /\ IF Fires(player, fire)
           THEN /\ bullets' = Append(bullets, Bullet(FireX(player)))
                /\ player' = [p EXCEPT !.cooldown = TRUE]
                /\ clock' = ScheduleOnce(clock, "end_cooldown", PlayerId,
                                         CooldownDelay)
                /\ sinceFire' = 0
           ELSE /\ player' = p
                /\ UNCHANGED <<bullets, clock, sinceFire>>
        /\ UNCHANGED <<images, screen, hit, sinceExplode>>

\* Player.update(elapsed_time) with the three keys' states
PlayerUpdate(left, right, fire, elapsed_time) ==
    LET p == Moved(player, left, right, elapsed_time)
    IN  /\ IF Fires(p, fire)
           THEN /\ bullets' = Append(bullets, Bullet(FireX(p)))
                /\ player' = [p EXCEPT !.cooldown = TRUE]
                /\ clock' = ScheduleOnce(clock, "end_cooldown", PlayerId,
                                         CooldownDelay)
                /\ sinceFire' = 0
           ELSE /\ player' = p
                /\ UNCHANGED <<bullets, clock, sinceFire>>
        /\ UNCHANGED <<images, screen, hit, sinceExplode>>

\* Bullet.update(elapsed_time) of the i-th Bullet of the list
BulletUpdate(i, elapsed_time) ==
    /\ i \in 1..Len(bullets)
    /\ LET b == BulletMove(bullets[i], elapsed_time)
       IN  bullets' = [bullets EXCEPT ![i] = b]
    /\ UNCHANGED <<images, player, clock, screen, hit, sinceFire, sinceExplode>>

\* destroy() called on an object directly
Destroy(id) ==
    /\ id \in Live
    /\ IF id = PlayerId
       THEN player' = destroy(player) /\ UNCHANGED bullets
       ELSE bullets' = [bullets EXCEPT ![id] = destroy(bullets[id])]
                /\ UNCHANGED player
    /\ UNCHANGED <<images, clock, screen, hit, sinceFire, sinceExplode>>

\* explode() called on an object
Explode(id) ==
    /\ id \in Live
    /\ IF id = PlayerId
       THEN player' = explode(player) /\ UNCHANGED bullets
       ELSE bullets' = [bullets EXCEPT ![id] = explode(bullets[id])]
                /\ UNCHANGED player
    /\ clock' = ScheduleOnce(clock, "destroy", id, ExplodeDelay)
    /\ sinceExplode' =
          [sinceExplode EXCEPT ![id] = IF @ = Never THEN 0 ELSE @]
    /\ UNCHANGED <<images, screen, hit, sinceFire>>

\* InvadersWindow.on_draw: clear the window, then draw the player
OnDraw ==
    /\ screen' = {draw(player)}
    /\ UNCHANGED <<images, player, bullets, clock, hit, sinceFire, sinceExplode>>

\* a.has_hit(b)
HasHit(a, b) ==
    /\ hit' = [called |-> TRUE, self |-> a, other |-> b, result |-> has_hit(a, b)]
    /\ UNCHANGED <<images, player, bullets, clock, screen, sinceFire, sinceExplode>>

\* ------------------------------------------------------------ the bounds
\* The model stops short of a step that would leave the bounds: more than nb
\* Bullets, more than np pending callbacks, a Player further than MaxMove
\* update-lengths from its start, a Bullet higher than MaxClimb.
InBounds(nb, np) ==
    /\ Len(bullets') <= nb
    /\ Len(clock') <= np
    /\ player'.x - StartX <= MaxMove * PlayerSpeed
    /\ StartX - player'.x <= MaxMove * PlayerSpeed
    /\ \A i \in 1..Len(bullets') :
          bullets'[i].y - Bullet(0).y <= MaxClimb * BulletSpeed

\* The game objects' lifecycle: every operation on every object, the Player
\* updated with the default elapsed_time of Player.update (0).
Next ==
    \/ \E dt \in TickDts : Tick(dt) /\ InBounds(MaxBullets, MaxPending)
    \/ \E left, right, fire \in BOOLEAN :
          PlayerUpdate(left, right, fire, 0) /\ InBounds(MaxBullets, MaxPending)
    \/ \E i \in 1..MaxBullets, dt \in BulletDts :
          BulletUpdate(i, dt) /\ InBounds(MaxBullets, MaxPending)
    \/ \E id \in ObjectIds : Destroy(id) /\ InBounds(MaxBullets, MaxPending)
    \/ \E id \in ObjectIds : Explode(id) /\ InBounds(MaxBullets, MaxPending)

Spec == Init /\ [][Next]_vars

\* The Player at play: it moves and fires as the clock runs, and may itself
\* be destroyed or explode.
NextFire ==
    \/ \E dt \in TickDts : Tick(dt) /\ InBounds(MaxShots, MaxPending)
    \/ \E left, right, fire \in BOOLEAN, dt \in PlayerDts :
          PlayerUpdate(left, right, fire, dt) /\ InBounds(MaxShots, MaxPending)
    \/ Destroy(PlayerId) /\ InBounds(MaxShots, MaxPending)
    \/ Explode(PlayerId) /\ InBounds(MaxShots, MaxPending)

SpecFire == Init /\ [][NextFire]_vars

\* The Player at play under pyglet.app.run, whose event loop keeps the clock
\* ticking for as long as the game runs.
ClockRuns == \E dt \in TickDts : Tick(dt)
SpecFireFair == SpecFire /\ WF_vars(ClockRuns)

\* The game window of invaders.py: it draws, its clock ticks, and the Player
\* it owns moves (the window keeps no bullet list, so the fire key is left
\* alone), is destroyed or explodes.
NextWindow ==
    \/ OnDraw
    \/ \E dt \in TickDts : Tick(dt)
    \/ \E left, right \in BOOLEAN, dt \in PlayerDts :
          PlayerUpdate(left, right, FALSE, dt) /\ InBounds(MaxBullets, MaxPending)
    \/ Destroy(PlayerId)
    \/ Explode(PlayerId) /\ InBounds(MaxBullets, MaxPending)

SpecWindow == Init /\ [][NextWindow]_vars

\* has_hit on its own: the two objects are drawn from HitObjects, their
\* images from HitImageSets.
HitCoords == {50 * k : k \in 0..MaxCoord}
HitImageSets ==
    { [player |-> <<w, h>>, bullet |-> <<1, 5>>, explosion |-> <<w, h>>] :
        w \in {5, 10}, h \in {5, 10} }
HitObjects ==
    { GameObject("player", x, y, DefaultScale) : x \in HitCoords, y \in HitCoords }

InitHit ==
    /\ images \in HitImageSets
    /\ player = Player
    /\ bullets = <<>>
    /\ clock = <<>>
    /\ screen = {}
    /\ hit = NoHit
    /\ sinceFire = Never
    /\ sinceExplode = [id \in ObjectIds |-> Never]

NextHit == \E a \in HitObjects \cup {player}, b \in HitObjects : HasHit(a, b)

SpecHit == InitHit /\ [][NextHit]_vars

\* ------------------------------------------------------------- properties
ObjectAfter(id) == IF id = PlayerId THEN player' ELSE bullets'[id]
Fired == Len(bullets') = Len(bullets) + 1
NewBullet == bullets'[Len(bullets')]

\* C1: after a Bullet is fired, no further Bullet is appended until
\* cooldown_time has passed on the clock, however often update runs with the
\* fire key held; and an update of a Cooling Player appends no Bullet, leaves
\* cooldown true and schedules nothing.
CooldownGating ==
    [][ /\ Fired => (sinceFire = Never \/ sinceFire >= CooldownTime)
        /\ Len(bullets') <= Len(bullets) + 1
        /\ \A left, right, fire \in BOOLEAN, dt \in PlayerDts :
              (player.cooldown /\ PlayerUpdate(left, right, fire, dt))
                  => (bullets' = bullets /\ player'.cooldown /\ clock' = clock)
      ]_vars

\* C1 witness: a second Bullet has been fired and the Player is Cooling again
SecondBulletFired == Len(bullets) = 2 /\ player.cooldown /\ sinceFire > 0

\* C2 as stated: from explode() until explosion_time has passed the object is
\* not destroyed, and from then on it is.
ExplosionTimingAsStated ==
    \A id \in Live :
        sinceExplode[id] # Never =>
            (Object(id).destroyed <=> sinceExplode[id] >= ExplosionTime)

\* C2 amended: once explosion_time has passed since explode() the object is
\* destroyed; and before that, an object first exploded while not destroyed
\* becomes destroyed only by a direct destroy() call, never by the clock.
ExplosionTiming ==
    [][ \A id \in Live :
          /\ (sinceExplode'[id] # Never /\ sinceExplode'[id] >= ExplosionTime)
                => ObjectAfter(id).destroyed
          /\ (~Object(id).destroyed /\ ObjectAfter(id).destroyed /\ ~Destroy(id))
                => (sinceExplode'[id] # Never /\ sinceExplode'[id] >= ExplosionTime)
      ]_vars

\* C2 witness: an exploded Bullet that the clock has destroyed, its delay over
ExplodedThenDestroyed ==
    /\ Len(bullets) = 1
    /\ bullets[1].exploded /\ bullets[1].destroyed
    /\ sinceExplode[1] = ExplosionTime
    /\ \A i \in 1..Len(clock) : clock[i].func # "destroy"

\* C3: a draw pass of the window leaves a destroyed Player off the screen.
DestroyedNotDrawn ==
    [][ (OnDraw /\ player.destroyed) => draw(player) \notin screen' ]_vars

\* C4: has_hit answers true exactly when self's anchor is strictly inside
\* other's rectangle (an anchor on an edge is no hit), and the call leaves
\* the game objects as they were.
HitTest ==
    hit.called =>
        /\ hit.result <=>
              /\ hit.other.x < hit.self.x
              /\ hit.self.x < hit.other.x + Width(hit.other)
              /\ hit.other.y < hit.self.y
              /\ hit.self.y < hit.other.y + Height(hit.other)
        /\ player = Player /\ bullets = <<>>

\* C4 witness: the anchor (10, 5) px on the right edge of the 10 x 10 px
\* rectangle at the origin, which is no hit
HitOnEdge ==
    /\ hit.called
    /\ images.player = <<10, 10>>
    /\ hit.other.x = 0 /\ hit.other.y = 0
    /\ hit.self.x = 100 /\ hit.self.y = 50
    /\ ~hit.result

\* C5: one update moves the Player's x by -speed*dt with only the left key
\* held, by +speed*dt with only the right key held, and not at all with both
\* keys or neither held.
MovementExclusive ==
    [][ \A left, right, fire \in BOOLEAN, dt \in PlayerDts :
          PlayerUpdate(left, right, fire, dt) =>
              player'.x - player.x =
                  IF left /\ ~right THEN -(PlayerSpeed * dt)
                  ELSE IF right /\ ~left THEN PlayerSpeed * dt
                  ELSE 0
      ]_vars

\* C5 witness: the Player has moved one update to the left of its start
MovedLeft == player.x = StartX - PlayerSpeed

\* C6: a newly fired Bullet is at x = player.x + player.width / 2 and at
\* y = the Player image's height + the Bullet image's height times its scale.
SpawnPosition ==
    [][ Fired =>
          /\ NewBullet.x = player'.x + Width(player') \div 2
          /\ NewBullet.y = images.player[2] * 10 + images.bullet[2] * BulletScale
      ]_vars

\* C6 witness: a Bullet fired by a Player that has moved away from its start
FiredAfterMove ==
    /\ Len(bullets) >= 1
    /\ player.x # StartX
    /\ bullets[Len(bullets)].x = player.x + Width(player) \div 2

\* C7: at spawn the Bullet's bottom edge (its y less its scaled height, the
\* anchor being at the top) is at or above the Player's top edge.
SpawnAboveFirer ==
    [][ Fired =>
          NewBullet.y - Height(NewBullet) >= player'.y + Height(player')
      ]_vars

\* C8: an update(dt) of a Bullet adds exactly speed*dt to its y, and no step
\* of the game ever lowers a Bullet's y.
BulletAscent ==
    [][ /\ \A i \in 1..Len(bullets), dt \in BulletDts :
              BulletUpdate(i, dt) => bullets'[i].y = bullets[i].y + BulletSpeed * dt
        /\ \A i \in 1..Len(bullets) : bullets'[i].y >= bullets[i].y
      ]_vars

\* C8 witness: a Bullet 180 px above its spawn height after one second
BulletClimbed ==
    \E i \in 1..Len(bullets) : bullets[i].y = Bullet(0).y + BulletSpeed * 10

\* C9: exploded and destroyed are false at construction, and no operation
\* ever turns either back to false.
FlagsMonotonic ==
    /\ ~player.exploded /\ ~player.destroyed
    /\ [][ /\ \A id \in Live :
                /\ Object(id).exploded => ObjectAfter(id).exploded
                /\ Object(id).destroyed => ObjectAfter(id).destroyed
           /\ Fired => (~NewBullet.exploded /\ ~NewBullet.destroyed)
         ]_vars

\* C9 witness: the Player exploded and destroyed, with callbacks still pending
\* and a Bullet fired since
FlagsSetAndKept ==
    /\ player.exploded /\ player.destroyed
    /\ Len(bullets) = 1 /\ ~bullets[1].destroyed
    /\ clock # <<>>

\* C10: no operation changes the width or the height of an object.
SizeImmutable ==
    [][ \A id \in Live :
          /\ Width(ObjectAfter(id)) = Width(Object(id))
          /\ Height(ObjectAfter(id)) = Height(Object(id))
      ]_vars

\* the end_cooldown callbacks pending on the clock
PendingCooldowns(q) == Cardinality({i \in 1..Len(q) : q[i].func = "end_cooldown"})

\* C11: cooldown is true from the fire until exactly cooldown_time has passed
\* on the clock and false from then on; and with the clock running, a Cooling
\* Player always becomes Ready again.
CooldownRelease ==
    /\ [](player.cooldown <=> (sinceFire # Never /\ sinceFire < CooldownTime))
    /\ (player.cooldown ~> ~player.cooldown)

\* C11 witness: Ready again, cooldown_time after a fire
ReadyAgain == Len(bullets) >= 1 /\ ~player.cooldown /\ sinceFire = CooldownTime

\* C12: a step appends a Bullet exactly when it schedules an end_cooldown, one
\* of each, and it is a step from Ready to Cooling (so as many end_cooldown
\* callbacks have been scheduled as Bullets fired); at most one end_cooldown
\* is pending, and cooldown is true exactly when one is.
OneCallbackPerFire ==
    [][ /\ Fired <=> PendingCooldowns(clock') = PendingCooldowns(clock) + 1
        /\ PendingCooldowns(clock') <= PendingCooldowns(clock) + 1
        /\ Len(bullets') \in {Len(bullets), Len(bullets) + 1}
        /\ (~player.cooldown /\ player'.cooldown) <=> Fired
        /\ PendingCooldowns(clock') <= 1
        /\ player'.cooldown <=> PendingCooldowns(clock') = 1
      ]_vars

\* C12 witness: the second Bullet just fired, one end_cooldown pending for it
SecondCallbackPending ==
    /\ Len(bullets) = 2
    /\ sinceFire = 0
    /\ player.cooldown
    /\ PendingCooldowns(clock) = 1

\* the destroy callbacks pending on the clock for object id, and those among
\* them that a tick of dt leaves pending
PendingDestroys(q, id) ==
    Cardinality({i \in 1..Len(q) : q[i].func = "destroy" /\ q[i].obj = id})
DestroysAfter(q, id, dt) ==
    Cardinality({i \in 1..Len(q) :
                    q[i].func = "destroy" /\ q[i].obj = id /\ q[i].delay > dt})
\* the fields every GameObject has
Core(o) == [image |-> o.image, x |-> o.x, y |-> o.y, scale |-> o.scale,
            exploded |-> o.exploded, destroyed |-> o.destroyed]

\* C13: every explode() call adds one destroy callback of its own; the object
\* is destroyed once explosion_time has passed since its first explode(),
\* whatever later calls are still waiting; and a tick runs every destroy that
\* is due, leaving an already destroyed object as it was.
RepeatedExplode ==
    [][ \A id \in Live :
          /\ Explode(id) =>
                PendingDestroys(clock', id) = PendingDestroys(clock, id) + 1
          /\ (sinceExplode'[id] # Never /\ sinceExplode'[id] >= ExplosionTime)
                => ObjectAfter(id).destroyed
          /\ \A dt \in TickDts :
                Tick(dt) =>
                    /\ PendingDestroys(clock', id) = DestroysAfter(clock, id, dt)
                    /\ Object(id).destroyed
                          => Core(ObjectAfter(id)) = Core(Object(id))
      ]_vars

\* C13 witness: the Player exploded a second time inside the explosion
\* window of the first call, both destroys pending, not yet destroyed
ExplodedTwiceInWindow ==
    /\ player.exploded /\ ~player.destroyed
    /\ sinceExplode[PlayerId] = 1
    /\ PendingDestroys(clock, PlayerId) = 2
    /\ clock[1].delay = 1 /\ clock[2].delay = ExplosionTime

\* the callbacks of the given kind for the Player that a tick of dt runs
DueFor(q, func, dt) ==
    {i \in 1..Len(q) : q[i].func = func /\ q[i].obj = PlayerId /\ q[i].delay <= dt}

\* C14: nothing cancels a pending callback. A Cooling Player, destroyed or
\* not, keeps its end_cooldown pending; destroy() leaves the clock alone; and
\* a tick runs every callback that is due, so that a due end_cooldown leaves
\* cooldown false and a due destroy leaves destroyed true, also on a Player
\* that is already destroyed.
NoCancellation ==
    [][ /\ player'.cooldown => PendingCooldowns(clock') = 1
        /\ Destroy(PlayerId) => clock' = clock
        /\ \A dt \in TickDts :
              Tick(dt) =>
                  /\ DueFor(clock, "end_cooldown", dt) # {} => ~player'.cooldown
                  /\ DueFor(clock, "destroy", dt) # {} => player'.destroyed
                  /\ Len(clock') =
                        Cardinality({i \in 1..Len(clock) : clock[i].delay > dt})
      ]_vars

\* C14 witness: the Player destroyed while Cooling, its end_cooldown still
\* pending and due at the next tick
DestroyedWhileCooling ==
    /\ player.destroyed /\ player.cooldown
    /\ clock # <<>>
    /\ clock[1].func = "end_cooldown" /\ clock[1].delay = 1

\* the change of x that the move keys ask of an update of length dt
Delta(left, right, dt) ==
    IF left /\ ~right THEN -(PlayerSpeed * dt)
    ELSE IF right /\ ~left THEN PlayerSpeed * dt
    ELSE 0

\* C15: an update of a destroyed or exploded Player with the fire key held
\* and cooldown false appends a Bullet, sets cooldown and schedules an
\* end_cooldown, and it moves the Player as the move keys ask, exactly as for
\* a live Player.
NoSelfGuard ==
    [][ \A left, right, fire \in BOOLEAN, dt \in PlayerDts :
          ((player.destroyed \/ player.exploded)
                /\ PlayerUpdate(left, right, fire, dt)) =>
              /\ (fire /\ ~player.cooldown) =>
                    /\ Fired
                    /\ player'.cooldown
                    /\ PendingCooldowns(clock') = PendingCooldowns(clock) + 1
              /\ player'.x = player.x + Delta(left, right, dt)
              /\ player'.destroyed = player.destroyed
              /\ player'.exploded = player.exploded
      ]_vars

\* C15 witness: a Player that exploded, was destroyed by the clock, and has
\* fired since the clock last ticked, away from its start position
DestroyedPlayerFired ==
    /\ player.exploded /\ player.destroyed
    /\ sinceExplode[PlayerId] = ExplosionTime
    /\ sinceFire = 0 /\ player.cooldown
    /\ Len(bullets) >= 1
    /\ player.x # StartX

MoveThenFire ==
    [][ \A left, right, fire \in BOOLEAN, dt \in PlayerDts :
          PlayerUpdate(left, right, fire, dt) =>
              /\ Fired <=> (fire /\ ~player.cooldown)
              /\ Fired =>
                    NewBullet.x =
                        player.x + Delta(left, right, dt) + Width(player) \div 2
      ]_vars

\* C17 witness: the first Bullet, fired by the update that moved the Player
\* one update-length to the right of its start, at the middle of the new place
MovedAndFired ==
    /\ Len(bullets) = 1
    /\ sinceFire = 0
    /\ ~player.exploded
    /\ player.x = StartX + PlayerSpeed
    /\ bullets[1].x = StartX + PlayerSpeed + Width(player) \div 2

====
